---- MODULE Spec2Model ----
(***************************************************************************)
(* Mandelbrot fractal viewer (src/src/main.rs): the view state machine     *)
(* driven by window and mouse messages (AppState::update), the pixel to    *)
(* plane mapping (ViewState::xy_to_point) and the data-parallel render     *)
(* pass (ViewState::generate).                                             *)
(*                                                                         *)
(* Numbers.  An f64 / f32 value is modelled as an extended rational        *)
(* <<n, d>> in lowest terms: d > 0 is the finite value n/d, <<1, 0>> is    *)
(* +inf, <<-1, 0>> is -inf and <<0, 0>> is NaN.  The arithmetic follows    *)
(* IEEE-754 on the special values (x/0, 0/0, inf-inf, 0*inf, NaN           *)
(* comparisons) and is exact on finite values: rounding is not modelled,   *)
(* and a zero carries no sign (every zero divisor of the program is a      *)
(* +0.0: a u32 converted to f64, or an underflowed exp).                   *)
(***************************************************************************)
EXTENDS Integers, Sequences, FiniteSets, TLC

\* ------------------------------------------------------------------------
\* Bounds of the model.
\* ------------------------------------------------------------------------

\* At most MaxScroll MouseScroll messages are handled in a behaviour.
MaxScroll == 1
\* At most MaxPan pans that move the view (a MouseRelease with the cursor
\* off the anchor) are handled in a behaviour.
MaxPan == 1
\* The render pass runs on a pool of 1 .. MaxThreads worker threads.
MaxThreads == 2
\* xy_to_point is applied to viewports of 1 .. MaxMapDim pixels each way.
MaxMapDim == 4
\* At most MaxMessages messages are delivered to update() in a behaviour of
\* the message loop.
MaxMessages == 4

\* ------------------------------------------------------------------------
\* f64 arithmetic on extended rationals.
\* ------------------------------------------------------------------------

Abs(i) == IF i < 0 THEN -i ELSE i

Sign(i) == IF i < 0 THEN -1 ELSE IF i > 0 THEN 1 ELSE 0

RECURSIVE Gcd(_, _)
Gcd(a, b) == IF b = 0 THEN a ELSE Gcd(b, a % b)

\* The value n/d in lowest terms; n/0 is an infinity or NaN.
Frac(n, d) ==
    IF d = 0 THEN <<Sign(n), 0>>
    ELSE LET g == Gcd(Abs(n), Abs(d))
         IN  <<Sign(d) * (n \div g), Abs(d) \div g>>

NaN == <<0, 0>>
PInf == <<1, 0>>
Zero == <<0, 1>>
One == <<1, 1>>
Half == <<1, 2>>

\* u32 as f64, and integer literals.
FromInt(i) == <<i, 1>>

IsNaN(a) == a = NaN
IsFinite(a) == a[2] > 0

FNeg(a) == <<-a[1], a[2]>>

FAdd(a, b) ==
    IF a[2] = 0 \/ b[2] = 0
    THEN (IF IsNaN(a) \/ IsNaN(b) THEN NaN
          ELSE IF a[2] = 0 /\ b[2] = 0
               THEN (IF a[1] = b[1] THEN a ELSE NaN)
               ELSE IF a[2] = 0 THEN a ELSE b)
    ELSE LET g == Gcd(a[2], b[2])
         IN  Frac(a[1] * (b[2] \div g) + b[1] * (a[2] \div g),
                  a[2] * (b[2] \div g))

FSub(a, b) == FAdd(a, FNeg(b))

FMul(a, b) ==
    IF a[2] = 0 \/ b[2] = 0
    THEN Frac(a[1] * b[1], 0)
    ELSE LET g1 == Gcd(Abs(a[1]), b[2])
             g2 == Gcd(Abs(b[1]), a[2])
         IN  Frac((a[1] \div g1) * (b[1] \div g2),
                  (a[2] \div g2) * (b[2] \div g1))

\* 1/b, with 1/0 = +inf and 1/inf = 0.
FRecip(b) ==
    IF b[2] = 0 THEN (IF IsNaN(b) THEN NaN ELSE Zero)
    ELSE IF b[1] = 0 THEN PInf
    ELSE <<Sign(b[1]) * b[2], Abs(b[1])>>

FDiv(a, b) == FMul(a, FRecip(b))

\* IEEE comparisons: every comparison with NaN is false.
FLt(a, b) ==
    /\ ~IsNaN(a) /\ ~IsNaN(b)
    /\ IF a[2] = 0 /\ b[2] = 0 THEN a[1] < b[1]
       ELSE IF a[2] = 0 THEN a[1] < 0
       ELSE IF b[2] = 0 THEN b[1] > 0
       ELSE FSub(a, b)[1] < 0

FEq(a, b) == ~IsNaN(a) /\ ~IsNaN(b) /\ a = b

FGe(a, b) == ~IsNaN(a) /\ ~IsNaN(b) /\ ~FLt(a, b)

\* `v as u32` of a float: truncation toward zero, saturating at 0 (NaN is 0).
\* Cursor coordinates are finite in this model.
AsU32(v) ==
    IF v[1] <= 0 THEN 0 ELSE v[1] \div v[2]

\* std::cmp::max on u32.
Max(a, b) == IF a >= b THEN a ELSE b

\* (delta as f64).exp().  exp overflows to +inf from 710 and underflows to
\* 0 below -745; e is taken as its convergent 19/7.
Exp(delta) ==
    CASE delta >= 710 -> PInf
      [] delta <= -746 -> Zero
      [] delta = 0 -> One
      [] delta = 1 -> <<19, 7>>
      [] delta = -1 -> <<7, 19>>

\* ------------------------------------------------------------------------
\* Complex<f64>.
\* ------------------------------------------------------------------------

Complex(re, im) == [re |-> re, im |-> im]

CAdd(a, b) == Complex(FAdd(a.re, b.re), FAdd(a.im, b.im))
CSub(a, b) == Complex(FSub(a.re, b.re), FSub(a.im, b.im))
CMul(a, b) == Complex(FSub(FMul(a.re, b.re), FMul(a.im, b.im)),
                      FAdd(FMul(a.re, b.im), FMul(a.im, b.re)))
\* Complex<f64> / f64 and Complex<f64> * f64 act on each component.
CDivReal(a, r) == Complex(FDiv(a.re, r), FDiv(a.im, r))
CMulReal(a, r) == Complex(FMul(a.re, r), FMul(a.im, r))
\* PartialEq on Complex<f64>.
CEq(a, b) == FEq(a.re, b.re) /\ FEq(a.im, b.im)
CIsFinite(a) == IsFinite(a.re) /\ IsFinite(a.im)

\* Option<T>.
None == <<>>
Some(v) == <<v>>

\* ------------------------------------------------------------------------
\* test_number and color_palette.
\* ------------------------------------------------------------------------

NUM_COLORS == 2048

\* |z|^2.  z.norm() >= 16.0 is decided as |z|^2 >= 256; hypot is infinite as
\* soon as one component is.
NormSq(z) ==
    IF (z.re[2] = 0 /\ z.re[1] # 0) \/ (z.im[2] = 0 /\ z.im[1] # 0) THEN PInf
    ELSE FAdd(FMul(z.re, z.re), FMul(z.im, z.im))

\* The f32 returned at loop index i with the escaped z:
\*   i as f32 + 1.0 - z.norm().log2().ln() as f32,
\* kept as the term  count - outer(inner(sqrt(normsq))).
Smoothed(i, z) ==
    [count |-> i + 1, normsq |-> NormSq(z), inner |-> "log2", outer |-> "ln"]

\* The integer part of outer(inner(x)) for a norm x >= 16 given by its
\* square, for the two orders of ln and log2:
\*   ln(log2(x))  is in [1, 2) for x < 2^(e^2) = 167.62.. and in [2, 3) from
\*                there up to 2^(e^3) = 1.1e6;
\*   log2(ln(x))  is in [1, 2) for x < e^4 = 54.59.., in [2, 3) from there up
\*                to e^8 = 2980.95.. and in [3, 4) from there up to e^16.
\* The result is -1 where the integer thresholds used do not decide it.
LogLogFloor(inner, outer, normsq) ==
    LET NormGe(k) == FGe(normsq, FromInt(k * k))
    IN  CASE inner = "log2" /\ outer = "ln" ->
                (IF NormGe(168) THEN 2 ELSE IF ~NormGe(167) THEN 1 ELSE -1)
          [] inner = "ln" /\ outer = "log2" ->
                (IF NormGe(2981) THEN 3
                 ELSE IF NormGe(55) /\ ~NormGe(2980) THEN 2
                 ELSE IF ~NormGe(54) THEN 1 ELSE -1)

\* The loop state: z, and the value returned so far (None while looping).
LoopState(z, ret) == [z |-> z, ret |-> ret]

\* LoopBody with the bailout test z.norm() >= 2.0.
LoopBodyRadius2(c, st, i) ==
    IF st.ret # None THEN st
    ELSE LET z == CAdd(CMul(st.z, st.z), c)
         IN  IF FGe(NormSq(z), FromInt(4))
             THEN LoopState(z, Some(Smoothed(i, z)))
             ELSE LoopState(z, None)

\* One pass of the body of `for i in 0..n` at index i.
LoopBody(c, st, i) ==
    IF st.ret # None THEN st
    ELSE LET z == CAdd(CMul(st.z, st.z), c)
         IN  IF FGe(NormSq(z), FromInt(256))
             THEN LoopState(z, Some(Smoothed(i, z)))
             ELSE LoopState(z, None)

\* The passes lo .. hi-1 in order, from the state st.
RECURSIVE Loop(_, _, _, _)
Loop(c, st, lo, hi) ==
    IF st.ret # None \/ lo >= hi THEN st
    ELSE IF hi = lo + 1 THEN LoopBody(c, st, lo)
    ELSE LET mid == lo + ((hi - lo) \div 2)
         IN  Loop(c, Loop(c, st, lo, mid), mid, hi)

\* Option<f32>: None, or Some of the smoothed count.
test_number(c, n) == Loop(c, LoopState(Complex(Zero, Zero), None), 0, n).ret

\* A u8 channel: a literal byte, or ((mult * pi/2 * sqrt(val / n)).sin()^2 * 255) as u8
\* kept as a term.
Byte(b) == [kind |-> "byte", byte |-> b, mult |-> 0, val |-> None, n |-> 0]
SinSq(mult, val, n) == [kind |-> "sin2", byte |-> 0, mult |-> mult, val |-> Some(val), n |-> n]

Bgra(b, g, r, a) == [b |-> b, g |-> g, r |-> r, a |-> a]

\* color_palette with the alpha byte of the None arm left at 0.
color_palette_clear(val, n) ==
    IF val = None THEN Bgra(Byte(0), Byte(0), Byte(0), Byte(0))
    ELSE LET r == SinSq(1, val[1], n)
             g == SinSq(3, val[1], n)
             b == SinSq(7, val[1], n)
         IN  Bgra(b, g, r, Byte(255))

color_palette(val, n) ==
    IF val = None THEN Bgra(Byte(0), Byte(0), Byte(0), Byte(255))
    ELSE LET r == SinSq(1, val[1], n)
             g == SinSq(3, val[1], n)
             b == SinSq(7, val[1], n)
         IN  Bgra(b, g, r, Byte(255))

\* ------------------------------------------------------------------------
\* ViewState.
\* ------------------------------------------------------------------------

ViewState(center, scale, width, height) ==
    [center |-> center, scale |-> scale, width |-> width, height |-> height]

\* xy_to_point with the half extent taken as 0.5 on both axes, the
\* letterbox ratios dropped.
xy_to_point_no_ratio(self, x, y) ==
    LET greater_dim == FromInt(Max(self.width, self.height))
        px == FMul(FSub(FDiv(FromInt(x), greater_dim), Half), self.scale)
        py == FMul(FSub(Half, FDiv(FromInt(y), greater_dim)), self.scale)
    IN  CAdd(self.center, Complex(px, py))

xy_to_point(self, x, y) ==
    LET greater_dim == FromInt(Max(self.width, self.height))
        width_ratio == FDiv(FromInt(self.width), greater_dim)
        height_ratio == FDiv(FromInt(self.height), greater_dim)
        px == FMul(FSub(FDiv(FromInt(x), greater_dim), FMul(Half, width_ratio)),
                   self.scale)
        py == FMul(FSub(FMul(Half, height_ratio), FDiv(FromInt(y), greater_dim)),
                   self.scale)
    IN  CAdd(self.center, Complex(px, py))

\* ImageBuffer<Bgra<u8>, Vec<u8>> held by AppState.  The buffer generate()
\* returns is a function of the ViewState alone (C6_RenderDeterministic below,
\* over every schedule of the render pass), so the application level
\* identifies a buffer with the ViewState it was generated from.
Generated(self) ==
    [width |-> self.width, height |-> self.height,
     center |-> self.center, scale |-> self.scale]

\* ------------------------------------------------------------------------
\* AppState and its messages.
\* ------------------------------------------------------------------------

\* Cursor positions reported by CursorMoved: window coordinates, which may
\* be fractional.
CursorPositions ==
    { <<FromInt(0), FromInt(0)>>, <<FromInt(1), FromInt(1)>>,
      <<Frac(3, 2), Frac(3, 2)>> }

\* Scroll amounts: one wheel line either way, and a pixel delta large enough
\* for exp to leave the f64 range.
Deltas == {-1000, -1, 1, 1000}

\* Window sizes reported by Resized: a minimised window (0 x 0) and a
\* square of even side.
Sizes == { <<0, 0>>, <<2, 2>> }

VARIABLES
    view_state,     \* AppState.view_state
    image,          \* AppState.image
    cursor,         \* AppState.cursor
    panning,        \* AppState.panning
    last_button,    \* history: the last MousePress / MouseRelease handled
    button_in,      \* history: "Idle" / "Panning" when the message handled last was
                    \* a MousePress / MouseRelease received in that state
    rendered,       \* history: the message handled last called regenerate()
    nscroll,        \* history: MouseScroll messages handled
    npan            \* history: pans handled that moved the cursor off the anchor

app_vars == <<view_state, image, cursor, panning, last_button, button_in, rendered,
              nscroll, npan>>

\* AppState::new.
AppNew ==
    /\ view_state = ViewState(Complex(Frac(-1, 2), Zero), FromInt(4), 10, 10)
    /\ image = Generated(view_state)
    /\ cursor = <<Zero, Zero>>
    /\ panning = None
    /\ last_button = "none"
    /\ button_in = "none"
    /\ rendered = TRUE
    /\ nscroll = 0
    /\ npan = 0

\* AppState::regenerate, on the view state the handler leaves.
regenerate(vs) == Generated(vs)

\* WindowResize that stores the size and forgets to regenerate.
WindowResizeNoRegenerate(width, height) ==
    /\ view_state' = [view_state EXCEPT !.width = width, !.height = height]
    /\ rendered' = FALSE
    /\ button_in' = "none"
    /\ UNCHANGED <<image, cursor, panning, last_button, nscroll, npan>>

\* update(Message::WindowResize { width, height }).
WindowResize(width, height) ==
    /\ view_state' = [view_state EXCEPT !.width = width, !.height = height]
    /\ image' = regenerate(view_state')
    /\ rendered' = TRUE
    /\ button_in' = "none"
    /\ UNCHANGED <<cursor, panning, last_button, nscroll, npan>>

\* MousePress that keeps the anchor of a pan already under way.
MousePressKeepsFirst ==
    /\ panning' = IF panning = None THEN Some(cursor) ELSE panning
    /\ last_button' = "press"
    /\ button_in' = IF panning = None THEN "Idle" ELSE "Panning"
    /\ rendered' = FALSE
    /\ UNCHANGED <<view_state, image, cursor, nscroll, npan>>

\* update(Message::MousePress).
MousePress ==
    /\ panning' = Some(cursor)
    /\ last_button' = "press"
    /\ button_in' = IF panning = None THEN "Idle" ELSE "Panning"
    /\ rendered' = FALSE
    /\ UNCHANGED <<view_state, image, cursor, nscroll, npan>>

\* The center a pan from anchor `old` to the cursor `cur` leaves.
PanCenter(vs, old, cur) ==
    LET max_dim == FromInt(Max(vs.width, vs.height))
        dx == FSub(cur[1], old[1])
        dy == FSub(cur[2], old[2])
        pan == CMulReal(CDivReal(Complex(FNeg(dx), dy), max_dim), vs.scale)
    IN  CAdd(vs.center, pan)

\* MouseRelease that reads the anchor without take(): the anchor stays.
MouseReleaseKeepsAnchor ==
    /\ IF panning # None
       THEN /\ view_state' = [view_state EXCEPT
                                !.center = PanCenter(view_state, panning[1], cursor)]
            /\ image' = regenerate(view_state')
            /\ rendered' = TRUE
            /\ npan' = IF panning[1] # cursor THEN npan + 1 ELSE npan
            /\ npan' <= MaxPan
       ELSE /\ UNCHANGED <<view_state, image, npan>>
            /\ rendered' = FALSE
    /\ last_button' = "release"
    /\ button_in' = IF panning = None THEN "Idle" ELSE "Panning"
    /\ UNCHANGED <<cursor, panning, nscroll>>

\* MouseRelease that calls regenerate() outside the `if let`.
MouseReleaseAlwaysRegenerate ==
    /\ panning' = None
    /\ IF panning # None
       THEN /\ view_state' = [view_state EXCEPT
                                !.center = PanCenter(view_state, panning[1], cursor)]
            /\ npan' = IF panning[1] # cursor THEN npan + 1 ELSE npan
            /\ npan' <= MaxPan
       ELSE UNCHANGED <<view_state, npan>>
    /\ image' = regenerate(view_state')
    /\ rendered' = TRUE
    /\ last_button' = "release"
    /\ button_in' = IF panning = None THEN "Idle" ELSE "Panning"
    /\ UNCHANGED <<cursor, nscroll>>

\* update(Message::MouseRelease).
MouseRelease ==
    /\ panning' = None
    /\ IF panning # None
       THEN /\ view_state' = [view_state EXCEPT
                                !.center = PanCenter(view_state, panning[1], cursor)]
            /\ image' = regenerate(view_state')
            /\ rendered' = TRUE
            /\ npan' = IF panning[1] # cursor THEN npan + 1 ELSE npan
            /\ npan' <= MaxPan
       ELSE /\ UNCHANGED <<view_state, image, npan>>
            /\ rendered' = FALSE
    /\ last_button' = "release"
    /\ button_in' = IF panning = None THEN "Idle" ELSE "Panning"
    /\ UNCHANGED <<cursor, nscroll>>

\* MouseMove that pans the view live while a button is held.
MouseMoveLivePan(x, y) ==
    /\ cursor' = <<x, y>>
    /\ IF panning # None
       THEN /\ view_state' = [view_state EXCEPT
                                !.center = PanCenter(view_state, cursor, <<x, y>>)]
            /\ image' = regenerate(view_state')
            /\ rendered' = TRUE
       ELSE /\ UNCHANGED <<view_state, image>>
            /\ rendered' = FALSE
    /\ button_in' = "none"
    /\ UNCHANGED <<panning, last_button, nscroll, npan>>

\* update(Message::MouseMove { x, y }).
MouseMove(x, y) ==
    /\ cursor' = <<x, y>>
    /\ rendered' = FALSE
    /\ button_in' = "none"
    /\ UNCHANGED <<view_state, image, panning, last_button, nscroll, npan>>

\* The view state a scroll by `delta` with the cursor at `cur` leaves.
ScrollView(vs, cur, delta) ==
    LET factor == Exp(delta)
        point_under_cursor == xy_to_point(vs, AsU32(cur[1]), AsU32(cur[2]))
        center_diff == CSub(vs.center, point_under_cursor)
    IN  [vs EXCEPT !.scale = FDiv(vs.scale, factor),
                   !.center = CAdd(point_under_cursor, CDivReal(center_diff, factor))]

\* MouseScroll that regenerates before it assigns scale and center.
MouseScrollStaleImage(delta) ==
    /\ nscroll < MaxScroll
    /\ view_state' = ScrollView(view_state, cursor, delta)
    /\ image' = regenerate(view_state)
    /\ rendered' = TRUE
    /\ nscroll' = nscroll + 1
    /\ button_in' = "none"
    /\ UNCHANGED <<cursor, panning, last_button, npan>>

\* update(Message::MouseScroll { delta }).
MouseScroll(delta) ==
    /\ nscroll < MaxScroll
    /\ view_state' = ScrollView(view_state, cursor, delta)
    /\ image' = regenerate(view_state')
    /\ rendered' = TRUE
    /\ nscroll' = nscroll + 1
    /\ button_in' = "none"
    /\ UNCHANGED <<cursor, panning, last_button, npan>>

\* ------------------------------------------------------------------------
\* ViewState::generate: the render pass.
\*
\* enumerate_pixels_mut() yields the pixels in row-major order, each with its
\* coordinates and a mutable reference to its own slot of the buffer;
\* par_bridge() hands the items of that one iterator, in order, to whichever
\* worker thread asks next; for_each runs the closure on each item and
\* returns once the iterator is drained and every closure has finished.
\* ------------------------------------------------------------------------

\* The view states rendered: the 1 x 1 start view, a 2 x 2 view, views
\* wider than high and higher than wide, a 3 x 2 view and two empty ones.
\* Every pixel of them maps to a point whose orbit is exact in the model.
RenderViews ==
    { ViewState(Complex(Frac(-1, 2), Zero), FromInt(4), 1, 1),
      ViewState(Complex(One, One), FromInt(4), 2, 2),
      ViewState(Complex(Zero, Zero), FromInt(8), 2, 1),
      ViewState(Complex(Zero, Zero), FromInt(4), 1, 2),
      ViewState(Complex(Zero, One), FromInt(6), 3, 2),
      ViewState(Complex(Frac(-1, 2), Zero), FromInt(4), 0, 0),
      ViewState(Complex(Frac(-1, 2), Zero), FromInt(4), 0, 2) }

VARIABLES
    r_view,         \* self: the ViewState being rendered
    r_threads,      \* the size of the thread pool
    r_image,        \* image: the buffer, one entry per pixel, row-major
    r_taken,        \* the items the bridged iterator has handed out so far
    r_item,         \* per worker: the item it runs the closure on, or None
    r_writes,       \* history: per slot, the writes it has received
    r_pc            \* "for_each" while the pass runs, then "returned"

render_vars == <<r_view, r_threads, r_image, r_taken, r_item, r_writes, r_pc>>

NumPixels(self) == self.width * self.height

\* ImageBuffer::new: a zeroed buffer of width * height pixels.
ImageBufferNew(width, height) ==
    [k \in 1 .. width * height |-> Bgra(Byte(0), Byte(0), Byte(0), Byte(0))]

\* enumerate_pixels_mut with the coordinates of an item exchanged.
EnumeratePixelTransposed(self, k) ==
    [x |-> k \div self.width, y |-> k % self.width, slot |-> k + 1]

\* The k-th item (from 0) of enumerate_pixels_mut: (x, y, pixel), with the
\* pixel reference kept as the index of its slot.
EnumeratePixel(self, k) ==
    [x |-> k % self.width, y |-> k \div self.width, slot |-> k + 1]

\* ImageBuffer::get_pixel(x, y) as an index into the buffer.
PixelIndex(self, x, y) == y * self.width + x + 1

\* The closure of for_each: the value it stores into *pixel.
Closure(self, x, y) ==
    LET c == xy_to_point(self, x, y)
        value == test_number(c, NUM_COLORS)
    IN  color_palette(value, NUM_COLORS)

\* generate() is entered on one of the view states, with some pool size.
GenerateEnter ==
    /\ r_view \in RenderViews
    /\ r_threads \in 1 .. MaxThreads
    /\ r_image = ImageBufferNew(r_view.width, r_view.height)
    /\ r_taken = 0
    /\ r_item = [w \in 1 .. r_threads |-> None]
    /\ r_writes = [k \in 1 .. NumPixels(r_view) |-> 0]
    /\ r_pc = "for_each"

\* TakeItem on an iterator read without the lock: the advance is lost while
\* another worker holds an item.
TakeItemUnsynchronised(w) ==
    /\ r_pc = "for_each"
    /\ r_item[w] = None
    /\ r_taken < NumPixels(r_view)
    /\ r_item' = [r_item EXCEPT ![w] = Some(EnumeratePixel(r_view, r_taken))]
    /\ r_taken' = IF \E o \in 1 .. r_threads : o # w /\ r_item[o] # None
                  THEN r_taken ELSE r_taken + 1
    /\ UNCHANGED <<r_view, r_threads, r_image, r_writes, r_pc>>

\* Worker w takes the next item of the bridged iterator.
TakeItem(w) ==
    /\ r_pc = "for_each"
    /\ r_item[w] = None
    /\ r_taken < NumPixels(r_view)
    /\ r_item' = [r_item EXCEPT ![w] = Some(EnumeratePixel(r_view, r_taken))]
    /\ r_taken' = r_taken + 1
    /\ UNCHANGED <<r_view, r_threads, r_image, r_writes, r_pc>>

\* Worker w runs the closure on its item and stores into the item's pixel.
RunClosure(w) ==
    /\ r_pc = "for_each"
    /\ r_item[w] # None
    /\ LET item == r_item[w][1]
       IN  /\ r_image' = [r_image EXCEPT ![item.slot] = Closure(r_view, item.x, item.y)]
           /\ r_writes' = [r_writes EXCEPT ![item.slot] = @ + 1]
    /\ r_item' = [r_item EXCEPT ![w] = None]
    /\ UNCHANGED <<r_view, r_threads, r_taken, r_pc>>

\* for_each returns and generate() returns the image.
GenerateReturn ==
    /\ r_pc = "for_each"
    /\ r_taken = NumPixels(r_view)
    /\ \A w \in 1 .. r_threads : r_item[w] = None
    /\ r_pc' = "returned"
    /\ UNCHANGED <<r_view, r_threads, r_image, r_taken, r_item, r_writes>>

\* No render pass is modelled in flight: the application level takes
\* generate() as one step.
RenderIdle ==
    /\ r_view = ViewState(Complex(Frac(-1, 2), Zero), FromInt(4), 0, 0)
    /\ r_threads = 1
    /\ r_image = ImageBufferNew(0, 0)
    /\ r_taken = 0
    /\ r_item = [w \in 1 .. 1 |-> None]
    /\ r_writes = [k \in 1 .. 0 |-> 0]
    /\ r_pc = "returned"

\* ------------------------------------------------------------------------
\* ViewState::xy_to_point applied on its own.
\* ------------------------------------------------------------------------

\* Centers and scales of the view states mapped: the start view, a view
\* after zooming and panning, and the scale an underflowed exp leaves.
MapCenters == { Complex(Frac(-1, 2), Zero), Complex(Frac(7, 19), FromInt(-2)) }
MapScales == { FromInt(4), Frac(28, 19), Half, PInf }

VARIABLES
    m_view,         \* self
    m_xy,           \* the arguments x, y
    m_point,        \* the point returned, None before the call
    m_pc            \* "call" before, "mapped" after

map_vars == <<m_view, m_xy, m_point, m_pc>>

\* A view state of 1 .. MaxMapDim pixels each way.
MapEnter ==
    /\ m_view \in { ViewState(c, sc, w, h) :
                      c \in MapCenters, sc \in MapScales,
                      w \in 1 .. MaxMapDim, h \in 1 .. MaxMapDim }
    /\ m_xy = <<0, 0>>
    /\ m_point = None
    /\ m_pc = "call"

\* xy_to_point is called on a pixel of the viewport.
MapPixel(x, y) ==
    /\ m_pc = "call"
    /\ m_xy' = <<x, y>>
    /\ m_point' = Some(xy_to_point(m_view, x, y))
    /\ m_pc' = "mapped"
    /\ UNCHANGED m_view

\* No call is modelled.
MapIdle ==
    /\ m_view = ViewState(Complex(Frac(-1, 2), Zero), FromInt(4), 10, 10)
    /\ m_xy = <<0, 0>>
    /\ m_point = None
    /\ m_pc = "mapped"

\* ------------------------------------------------------------------------
\* test_number and color_palette applied on their own, the loop of
\* test_number one pass at a time.
\* ------------------------------------------------------------------------

\* Points evaluated: the origin, 2, points with a periodic orbit (-1, i),
\* the pixel of the 1 x 1 start view, and points far outside the set.
EvalPoints ==
    { Complex(Zero, Zero), Complex(FromInt(2), Zero), Complex(FromInt(-1), Zero),
      Complex(Zero, One), Complex(Frac(-5, 2), FromInt(2)),
      Complex(FromInt(100), Zero), Complex(Zero, FromInt(-3000)) }

\* Iteration budgets n: NUM_COLORS as generate() passes it, and small ones.
Budgets == { 1, 2, 3, NUM_COLORS }

VARIABLES
    t_c,            \* c
    t_n,            \* n
    t_z,            \* z
    t_i,            \* passes of the loop body that have run
    t_ret,          \* the Option<f32> returned (None while the loop runs)
    t_color,        \* the Bgra<u8> of color_palette, None before its call
    t_pc            \* "loop", "returned" (test_number), "colored" (color_palette)

eval_vars == <<t_c, t_n, t_z, t_i, t_ret, t_color, t_pc>>

\* test_number(c, n) is entered.
EvalEnter ==
    /\ t_c \in EvalPoints
    /\ t_n \in Budgets
    /\ t_z = Complex(Zero, Zero)
    /\ t_i = 0
    /\ t_ret = None
    /\ t_color = None
    /\ t_pc = "loop"

\* One pass of `for i in 0..n`, returning from inside it on escape.
LoopIteration ==
    /\ t_pc = "loop"
    /\ t_i < t_n
    /\ LET st == LoopBody(t_c, LoopState(t_z, None), t_i)
       IN  /\ t_z' = st.z
           /\ t_ret' = st.ret
           /\ t_pc' = IF st.ret # None THEN "returned" ELSE "loop"
    /\ t_i' = t_i + 1
    /\ UNCHANGED <<t_c, t_n, t_color>>

\* The range 0..n is exhausted: test_number returns None.
LoopExit ==
    /\ t_pc = "loop"
    /\ t_i = t_n
    /\ t_ret' = None
    /\ t_pc' = "returned"
    /\ UNCHANGED <<t_c, t_n, t_z, t_i, t_color>>

\* color_palette(value, n) on the value returned.
ColorPalette ==
    /\ t_pc = "returned"
    /\ t_color' = Some(color_palette(t_ret, t_n))
    /\ t_pc' = "colored"
    /\ UNCHANGED <<t_c, t_n, t_z, t_i, t_ret>>

\* No evaluation is modelled.
EvalIdle ==
    /\ t_c = Complex(Zero, Zero)
    /\ t_n = 0
    /\ t_z = Complex(Zero, Zero)
    /\ t_i = 0
    /\ t_ret = None
    /\ t_color = None
    /\ t_pc = "colored"

\* ------------------------------------------------------------------------
\* The message loop: update() with the render pass of regenerate() in
\* steps.
\*
\* The runtime turns window and mouse events into messages (subscription)
\* and hands them to update(&mut self, message) one by one, in order.  A
\* message may arrive at any time, also while update() runs; it waits in
\* the queue.  update() on a message that regenerates mutates view_state,
\* calls generate() on it, which returns when for_each has returned, and
\* assigns the buffer to self.image.
\* ------------------------------------------------------------------------

\* The messages delivered: a resize to a 1 x 1 window (whose pixel maps to
\* a point with an exact orbit), the buttons, a move to pixel (1, 1) and a
\* scroll by 0.  The first message is the Resized event of the new window.
UpdateMessages ==
    { <<"WindowResize", 1, 1>>, <<"MousePress">>, <<"MouseRelease">>,
      <<"MouseMove", One, One>>, <<"MouseScroll", 0>> }

VARIABLES
    queue,          \* messages delivered and not yet handled, oldest first
    u_pc,           \* "idle", or "generate" while update() is inside generate()
    ndelivered      \* history: messages delivered

update_vars == <<queue, u_pc, ndelivered>>

\* No message is waiting and update() is not running.
UpdateIdle ==
    /\ queue = <<>>
    /\ u_pc = "idle"
    /\ ndelivered = 0

\* The runtime delivers the message of an event.
Deliver(m) ==
    /\ ndelivered < MaxMessages
    /\ ndelivered = 0 => m[1] = "WindowResize"
    /\ queue' = Append(queue, m)
    /\ ndelivered' = ndelivered + 1
    /\ UNCHANGED u_pc

\* update() calls regenerate() on message m.
Regenerates(m) ==
    \/ m[1] = "WindowResize"
    \/ m[1] = "MouseScroll"
    \/ m[1] = "MouseRelease" /\ panning # None

\* The view state update() has assigned when it calls regenerate().
ViewBeforeRegenerate(m) ==
    CASE m[1] = "WindowResize" ->
            [view_state EXCEPT !.width = m[2], !.height = m[3]]
      [] m[1] = "MouseRelease" ->
            [view_state EXCEPT !.center = PanCenter(view_state, panning[1], cursor)]
      [] m[1] = "MouseScroll" ->
            ScrollView(view_state, cursor, m[2])

\* generate() is entered on the view state vs.
GenerateCall(vs) ==
    /\ r_view' = vs
    /\ r_threads' \in 1 .. MaxThreads
    /\ r_image' = ImageBufferNew(vs.width, vs.height)
    /\ r_taken' = 0
    /\ r_item' = [w \in 1 .. r_threads' |-> None]
    /\ r_writes' = [k \in 1 .. NumPixels(vs) |-> 0]
    /\ r_pc' = "for_each"

\* update() on a message that does not regenerate: the whole handler.
UpdateNoRender ==
    /\ u_pc = "idle"
    /\ queue # <<>>
    /\ ~Regenerates(Head(queue))
    /\ LET m == Head(queue)
       IN  CASE m[1] = "MousePress" -> MousePress
             [] m[1] = "MouseRelease" -> MouseRelease
             [] m[1] = "MouseMove" -> MouseMove(m[2], m[3])
    /\ queue' = Tail(queue)
    /\ UNCHANGED <<u_pc, ndelivered>>

\* update() on a message that regenerates, up to the call of generate().
UpdateRegenerate ==
    /\ u_pc = "idle"
    /\ queue # <<>>
    /\ Regenerates(Head(queue))
    /\ LET m == Head(queue)
       IN  /\ view_state' = ViewBeforeRegenerate(m)
           /\ panning' = IF m[1] = "MouseRelease" THEN None ELSE panning
           /\ last_button' = IF m[1] = "MouseRelease" THEN "release" ELSE last_button
           /\ button_in' = IF m[1] = "MouseRelease" THEN "Panning" ELSE "none"
           /\ nscroll' = IF m[1] = "MouseScroll" THEN nscroll + 1 ELSE nscroll
           /\ npan' = IF m[1] = "MouseRelease" /\ panning[1] # cursor
                      THEN npan + 1 ELSE npan
    /\ GenerateCall(view_state')
    /\ u_pc' = "generate"
    /\ UNCHANGED <<image, cursor, rendered, queue, ndelivered>>

\* update() that takes the buffer as soon as the iterator is drained,
\* without joining the workers still in their closures.
UpdateReturnNoJoin ==
    /\ u_pc = "generate"
    /\ r_pc = "for_each"
    /\ r_taken = NumPixels(r_view)
    /\ r_pc' = "returned"
    /\ image' = Generated(r_view)
    /\ rendered' = TRUE
    /\ u_pc' = "idle"
    /\ queue' = Tail(queue)
    /\ UNCHANGED <<view_state, cursor, panning, last_button, button_in, nscroll, npan,
                   r_view, r_threads, r_image, r_taken, r_item, r_writes, ndelivered>>

\* generate() returns, the buffer is assigned to self.image and update()
\* returns.
UpdateReturn ==
    /\ u_pc = "generate"
    /\ GenerateReturn
    /\ image' = Generated(r_view)
    /\ rendered' = TRUE
    /\ u_pc' = "idle"
    /\ queue' = Tail(queue)
    /\ UNCHANGED <<view_state, cursor, panning, last_button, button_in, nscroll, npan,
                   ndelivered>>

vars == <<app_vars, render_vars, map_vars, update_vars, eval_vars>>

\* The application: one step per message handled by update().
Init == AppNew /\ RenderIdle /\ MapIdle /\ UpdateIdle /\ EvalIdle

Next ==
    \/ (\E size \in Sizes : WindowResize(size[1], size[2])) /\ UNCHANGED <<render_vars, map_vars, update_vars, eval_vars>>
    \/ MousePress /\ UNCHANGED <<render_vars, map_vars, update_vars, eval_vars>>
    \/ MouseRelease /\ UNCHANGED <<render_vars, map_vars, update_vars, eval_vars>>
    \/ (\E p \in CursorPositions : MouseMove(p[1], p[2])) /\ UNCHANGED <<render_vars, map_vars, update_vars, eval_vars>>
    \/ (\E delta \in Deltas : MouseScroll(delta)) /\ UNCHANGED <<render_vars, map_vars, update_vars, eval_vars>>

Spec == Init /\ [][Next]_vars

\* One call of generate(), its workers interleaved in every order.
RenderInit == AppNew /\ GenerateEnter /\ MapIdle /\ UpdateIdle /\ EvalIdle

RenderNext ==
    \/ (\E w \in 1 .. r_threads : TakeItem(w)) /\ UNCHANGED <<app_vars, map_vars, update_vars, eval_vars>>
    \/ (\E w \in 1 .. r_threads : RunClosure(w)) /\ UNCHANGED <<app_vars, map_vars, update_vars, eval_vars>>
    \/ GenerateReturn /\ UNCHANGED <<app_vars, map_vars, update_vars, eval_vars>>

SpecRender == RenderInit /\ [][RenderNext]_vars

\* One call of xy_to_point.
MapInit == AppNew /\ RenderIdle /\ MapEnter /\ UpdateIdle /\ EvalIdle

MapNext ==
    \E x \in 0 .. m_view.width - 1, y \in 0 .. m_view.height - 1 :
        MapPixel(x, y) /\ UNCHANGED <<app_vars, render_vars, update_vars, eval_vars>>

SpecMap == MapInit /\ [][MapNext]_vars

\* The message loop, with the workers of the render pass interleaved with
\* the delivery of messages.
UpdateNext ==
    \/ (\E m \in UpdateMessages : Deliver(m)) /\ UNCHANGED <<app_vars, render_vars, map_vars, eval_vars>>
    \/ UpdateNoRender /\ UNCHANGED <<render_vars, map_vars, eval_vars>>
    \/ UpdateRegenerate /\ UNCHANGED <<map_vars, eval_vars>>
    \/ (\E w \in 1 .. r_threads : TakeItem(w)) /\ UNCHANGED <<app_vars, map_vars, update_vars, eval_vars>>
    \/ (\E w \in 1 .. r_threads : RunClosure(w)) /\ UNCHANGED <<app_vars, map_vars, update_vars, eval_vars>>
    \/ UpdateReturn /\ UNCHANGED <<map_vars, eval_vars>>

SpecUpdate == Init /\ [][UpdateNext]_vars

\* One call of test_number, then color_palette on its result.
EvalInit == AppNew /\ RenderIdle /\ MapIdle /\ UpdateIdle /\ EvalEnter

EvalNext ==
    \/ LoopIteration /\ UNCHANGED <<app_vars, render_vars, map_vars, update_vars>>
    \/ LoopExit /\ UNCHANGED <<app_vars, render_vars, map_vars, update_vars>>
    \/ ColorPalette /\ UNCHANGED <<app_vars, render_vars, map_vars, update_vars>>

SpecEval == EvalInit /\ [][EvalNext]_vars

\* ------------------------------------------------------------------------
\* Properties.
\* ------------------------------------------------------------------------

\* A cursor position that is a pixel: whole, non-negative coordinates.
IsPixelPos(p) == p[1] = FromInt(AsU32(p[1])) /\ p[2] = FromInt(AsU32(p[2]))

\* The pixel under a cursor position, as update() takes it.
PixelUnder(p) == <<AsU32(p[1]), AsU32(p[2])>>

\* C1: the session starts Idle (no anchor); a MousePress in Idle stores the
\* cursor as the anchor and leaves the view state and the image alone, with
\* no render; a MouseRelease clears the anchor; so the anchor is set exactly
\* when the last press/release handled was a press.
C1_PanningFollowsButtons ==
    /\ [](panning # None <=> last_button = "press")
    /\ [][(MousePress /\ panning = None) =>
            (panning' = Some(cursor) /\ ~rendered' /\ UNCHANGED <<view_state, image>>)]_vars
    /\ [][MouseRelease => panning' = None]_vars

\* C1 witness: a press has been handled and then released.
C1_Witness == last_button = "release" /\ panning = None /\ npan >= 1

\* C2: a MouseRelease with the anchor at pixel p1 and the cursor at pixel p2
\* (the state CursorMove(p1), MousePress, CursorMove(p2) leaves from any
\* view state) moves center by (-dx, dy) / max(width, height) * scale, keeps
\* scale, width and height, maps p2 to the point p1 was mapped to before, and
\* changes nothing of the view state when p1 = p2.
C2_PanInvariant ==
    [][(MouseRelease /\ panning # None /\ IsPixelPos(panning[1]) /\ IsPixelPos(cursor)) =>
         LET p1 == PixelUnder(panning[1])
             p2 == PixelUnder(cursor)
             d == FromInt(Max(view_state.width, view_state.height))
             shift == Complex(FMul(FDiv(FromInt(p1[1] - p2[1]), d), view_state.scale),
                              FMul(FDiv(FromInt(p2[2] - p1[2]), d), view_state.scale))
         IN  /\ CEq(xy_to_point(view_state', p2[1], p2[2]),
                    xy_to_point(view_state, p1[1], p1[2]))
             /\ CEq(view_state'.center, CAdd(view_state.center, shift))
             /\ view_state'.scale = view_state.scale
             /\ view_state'.width = view_state.width
             /\ view_state'.height = view_state.height
             /\ (p1 = p2 => view_state' = view_state)]_vars

\* C3: a MouseScroll by delta keeps the plane point under the cursor's pixel
\* under that pixel, divides scale by exp(delta), and leaves width, height,
\* the cursor and the anchor alone.
C3_ZoomAnchor ==
    [][\A delta \in Deltas : MouseScroll(delta) =>
         LET px == PixelUnder(cursor)
             p == xy_to_point(view_state, px[1], px[2])
         IN  /\ CEq(xy_to_point(view_state', px[1], px[2]), p)
             /\ FEq(view_state'.scale, FDiv(view_state.scale, Exp(delta)))
             /\ view_state'.width = view_state.width
             /\ view_state'.height = view_state.height
             /\ UNCHANGED <<cursor, panning>>]_vars

\* C4: in every reachable state the viewport is at least 1 x 1.
C4_DimensionsPositive == view_state.width >= 1 /\ view_state.height >= 1

\* C5: in every reachable state the scale is strictly positive.
C5_ScalePositive == FLt(Zero, view_state.scale)

\* The buffer of the run in which one worker takes the items in order.
SerialRender(self) ==
    [k \in 1 .. NumPixels(self) |->
        LET item == EnumeratePixel(self, k - 1) IN Closure(self, item.x, item.y)]

\* C6: whatever the pool size and the schedule, no slot is written twice, no
\* two workers hold the same slot, and when generate() returns every slot
\* has been written once and the buffer is the one the in-order run of a
\* single worker produces.
C6_RenderDeterministic ==
    /\ \A k \in 1 .. NumPixels(r_view) : r_writes[k] <= 1
    /\ \A w1, w2 \in 1 .. r_threads :
         (w1 # w2 /\ r_item[w1] # None /\ r_item[w2] # None)
            => r_item[w1][1].slot # r_item[w2][1].slot
    /\ r_pc = "returned" =>
         /\ \A k \in 1 .. NumPixels(r_view) : r_writes[k] = 1
         /\ r_image = SerialRender(r_view)

\* C6 witness: a pass over several pixels on two threads has returned.
C6_Witness == r_pc = "returned" /\ r_threads >= 2 /\ NumPixels(r_view) >= 4

\* C7: the buffer generate() returns has width * height pixels, and its
\* pixel at (x, y) is color_palette(test_number(xy_to_point(x, y), 2048), 2048).
C7_PipelineComposition ==
    r_pc = "returned" =>
        /\ Len(r_image) = r_view.width * r_view.height
        /\ \A x \in 0 .. r_view.width - 1, y \in 0 .. r_view.height - 1 :
             r_image[PixelIndex(r_view, x, y)]
               = color_palette(test_number(xy_to_point(r_view, x, y), 2048), 2048)

\* C7 witness: the 1 x 1 view at center (-0.5, 0), scale 4 has been rendered.
C7_Witness ==
    /\ r_pc = "returned"
    /\ r_view = ViewState(Complex(Frac(-1, 2), Zero), FromInt(4), 1, 1)
    /\ r_image[1] # Bgra(Byte(0), Byte(0), Byte(0), Byte(0))

\* The call of xy_to_point was on the pixel (width / 2, height / 2) of a view
\* with a finite center and a finite scale > 0.
MappedCenterPixel ==
    /\ m_pc = "mapped"
    /\ m_xy = <<m_view.width \div 2, m_view.height \div 2>>
    /\ CIsFinite(m_view.center)
    /\ IsFinite(m_view.scale) /\ FLt(Zero, m_view.scale)

\* C8 as stated: xy_to_point(width / 2, height / 2) is center, odd and
\* non-square viewports included.
C8_CenterInvariance ==
    MappedCenterPixel => CEq(m_point[1], m_view.center)

\* C8 as amended: xy_to_point(width / 2, height / 2) is center displaced by
\* half a pixel to the left for an odd width and half a pixel up for an odd
\* height, so it is center when both are even.
C8_CenterWithinHalfPixel ==
    MappedCenterPixel =>
        LET d == FromInt(2 * Max(m_view.width, m_view.height))
            off == Complex(FMul(FDiv(FromInt(-(m_view.width % 2)), d), m_view.scale),
                           FMul(FDiv(FromInt(m_view.height % 2), d), m_view.scale))
        IN  /\ CEq(m_point[1], CAdd(m_view.center, off))
            /\ (m_view.width % 2 = 0 /\ m_view.height % 2 = 0)
                 => CEq(m_point[1], m_view.center)

\* C8 witness: the center pixel of an even, non-square viewport was mapped.
C8_Witness ==
    /\ MappedCenterPixel
    /\ m_view.width % 2 = 0 /\ m_view.height % 2 = 0
    /\ m_view.width # m_view.height

\* C9: a MouseMove to (x, y) stores (x, y) as the cursor and changes nothing
\* else, Panning or not, and calls no render.
C9_MouseMoveFrame ==
    [][\A p \in CursorPositions : MouseMove(p[1], p[2]) =>
         /\ cursor' = p
         /\ ~rendered'
         /\ UNCHANGED <<view_state, image, panning>>]_vars

\* C9 witness: the cursor has moved off the anchor while Panning.
C9_Witness == panning # None /\ cursor # panning[1] /\ ~rendered

\* C10: a WindowResize to w x h stores w and h, regenerates the image from
\* the resized view state, and leaves center, scale, the cursor and the
\* anchor alone.
C10_ResizeFrame ==
    [][\A size \in Sizes : WindowResize(size[1], size[2]) =>
         /\ view_state'.width = size[1]
         /\ view_state'.height = size[2]
         /\ rendered'
         /\ image' = Generated(view_state')
         /\ view_state'.center = view_state.center
         /\ view_state'.scale = view_state.scale
         /\ UNCHANGED <<cursor, panning>>]_vars

\* C10 witness: the window was resized to 2 x 2 while Panning.
C10_Witness ==
    /\ rendered /\ panning # None
    /\ view_state.width = 2 /\ view_state.height = 2
    /\ image.width = 2 /\ image.height = 2

\* C11: while update() is inside generate() no message is handled: the view
\* state, the cursor and the anchor do not change, the message being handled
\* stays at the head of the queue, the render stays the render of the
\* current view state and no slot written is lost; update() leaves the
\* render only with every slot written once, and then the stored image is
\* the buffer of the current view state.
C11_RenderSynchronous ==
    /\ [](u_pc = "generate" => (queue # <<>> /\ r_view = view_state))
    /\ [][u_pc = "generate" =>
            /\ UNCHANGED <<view_state, cursor, panning, r_view>>
            /\ \A k \in 1 .. NumPixels(r_view) : r_writes'[k] >= r_writes[k]
            /\ u_pc' = "generate" => (image' = image /\ Head(queue') = Head(queue))
            /\ u_pc' = "idle" =>
                  /\ \A k \in 1 .. NumPixels(r_view) : r_writes[k] = 1
                  /\ r_image = SerialRender(r_view)
                  /\ image' = Generated(view_state)]_vars
    /\ [][image' # image => (u_pc = "generate" /\ u_pc' = "idle")]_vars

\* C11 witness: a worker of the render of a pan holds a pixel it has not
\* written yet while a later message waits.
C11_Witness ==
    /\ u_pc = "generate"
    /\ Head(queue) = <<"MouseRelease">>
    /\ Len(queue) >= 2
    /\ \E w \in 1 .. r_threads : r_item[w] # None
    /\ \E k \in 1 .. NumPixels(r_view) : r_writes[k] = 0

\* test_number was called on the origin with the budget of generate().
OriginEvaluated ==
    t_c = Complex(Zero, Zero) /\ t_n = NUM_COLORS

\* C12: test_number(0, 2048) keeps z = 0, runs all 2048 passes and returns
\* None; and color_palette(None, n) is the opaque black pixel for every n.
C12_BoundedPointStability ==
    /\ OriginEvaluated => t_z = Complex(Zero, Zero)
    /\ (OriginEvaluated /\ t_pc # "loop") =>
          /\ t_ret = None
          /\ t_i = 2048
          /\ test_number(Complex(Zero, Zero), 2048) = None
    /\ (t_pc = "colored" /\ t_ret = None) =>
          t_color = Some(Bgra(Byte(0), Byte(0), Byte(0), Byte(255)))

\* C12 witness: the origin was evaluated with budget 2048 and coloured.
C12_Witness ==
    /\ OriginEvaluated
    /\ t_pc = "colored"
    /\ t_i = 2048

\* test_number was called on 2 + 0i with the budget of generate().
TwoEvaluated ==
    t_c = Complex(FromInt(2), Zero) /\ t_n = NUM_COLORS

\* C13: for c = 2 the iterates are 2, 6, 38; the first two are below the
\* bailout radius 16 and the loop goes on, the third is not and
\* test_number returns Some in its third pass (index 2), with 2045 passes
\* of the budget unused.
C13_ImmediateEscape ==
    TwoEvaluated =>
        /\ t_i <= 3
        /\ t_i = 1 => (t_z = Complex(FromInt(2), Zero) /\ t_pc = "loop")
        /\ t_i = 2 => (t_z = Complex(FromInt(6), Zero) /\ t_pc = "loop")
        /\ t_i = 3 => (t_z = Complex(FromInt(38), Zero) /\ t_pc # "loop")
        /\ t_pc # "loop" =>
              /\ t_i = 3
              /\ t_ret # None
              /\ t_ret[1].count = 3
              /\ t_ret = test_number(Complex(FromInt(2), Zero), 2048)

\* C13 witness: test_number(2, 2048) has returned.
C13_Witness ==
    /\ TwoEvaluated
    /\ t_pc = "returned"
    /\ t_ret # None

\* C14: when test_number returns from the pass of index k = t_i - 1, the
\* value is k + 1 - log2(ln(|z|)): ln is applied to the norm and log2 to the
\* result, so the integer part of the term subtracted is that of
\* log2(ln(|z|)).
C14_SmoothedCount ==
    (t_pc # "loop" /\ t_ret # None) =>
        /\ t_ret[1].count = (t_i - 1) + 1
        /\ t_ret[1].normsq = NormSq(t_z)
        /\ LogLogFloor(t_ret[1].inner, t_ret[1].outer, t_ret[1].normsq)
             = LogLogFloor("ln", "log2", NormSq(t_z))
        /\ t_ret[1].inner = "ln"
        /\ t_ret[1].outer = "log2"

\* C15: after AppState::new and after every message handled, the stored
\* image is the buffer generated from the current view state, of
\* view_state.width x view_state.height pixels; and a message that changes
\* the view state regenerates the image while it is handled.
C15_ImageFresh ==
    /\ [](/\ image = Generated(view_state)
          /\ image.width = view_state.width
          /\ image.height = view_state.height)
    /\ [][view_state' # view_state =>
            (rendered' /\ image' = Generated(view_state'))]_vars

\* C15 witness: the view has been zoomed, panned and resized.
C15_Witness ==
    /\ nscroll >= 1
    /\ npan >= 1
    /\ view_state.width = 2
    /\ IsFinite(view_state.scale)
    /\ CIsFinite(view_state.center)

\* C16: a MouseRelease handled with no anchor set changes nothing: the view
\* state, the cursor, the anchor and the image stay, and nothing is
\* rendered.
C16_ReleaseInIdle ==
    [][(MouseRelease /\ panning = None) =>
         /\ UNCHANGED <<view_state, cursor, panning, image>>
         /\ ~rendered']_vars

\* C16 witness: a MouseRelease has just been handled in Idle, after a pan
\* that moved the view.
C16_Witness ==
    /\ last_button = "release"
    /\ button_in = "Idle"
    /\ npan >= 1

\* C17: a MousePress handled while an anchor is set stores the cursor as
\* the new anchor and changes nothing else; and a MouseRelease moves center
\* by the displacement of the cursor from the anchor stored last.
C17_RepressReplacesAnchor ==
    /\ [][(MousePress /\ panning # None) =>
            /\ panning' = Some(cursor)
            /\ ~rendered'
            /\ UNCHANGED <<view_state, image, cursor>>]_vars
    /\ [][(MouseRelease /\ panning # None) =>
            LET d == FromInt(Max(view_state.width, view_state.height))
                dx == FSub(cursor[1], panning[1][1])
                dy == FSub(cursor[2], panning[1][2])
                shift == Complex(FMul(FDiv(FNeg(dx), d), view_state.scale),
                                 FMul(FDiv(dy, d), view_state.scale))
            IN  /\ view_state'.center = CAdd(view_state.center, shift)
                /\ panning' = None]_vars

\* C17 witness: a MousePress has just been handled in Panning, with the
\* cursor off the first anchor.
C17_Witness ==
    /\ last_button = "press"
    /\ button_in = "Panning"
    /\ panning = Some(cursor)
    /\ cursor # <<Zero, Zero>>

====
